---- MODULE Spec2Model ----
(***************************************************************************)
(* Model of scripts/slurm.py: split a line-oriented dataset into n_splits  *)
(* partitions, submit one batch job per partition, monitor the jobs with   *)
(* retries, and concatenate the per-partition outputs.                     *)
(*                                                                         *)
(* The orchestrator (main) is one sequential process whose position is pc. *)
(* The batch scheduler, the worker jobs and the operator who kills or      *)
(* reruns the script are the environment.  Files survive a rerun, process  *)
(* state does not.                                                         *)
(***************************************************************************)
EXTENDS Integers, Sequences, FiniteSets, TLC

\* Bounds of the model of a whole run (Spec, FairSpec).
MaxLines == 2      \* the dataset has 0..MaxLines lines
MaxSplits == 2     \* --n_splits ranges over 1..MaxSplits

\* Bounds of the model of split_input_file under kills and reruns (SplitSpec).
SplitMaxLines == 4 \* the dataset has 0..SplitMaxLines lines
SplitMaxN == 3     \* --n_splits ranges over 1..SplitMaxN
MaxRuns == 3       \* how many times the script is started on the same files

\* Bounds of the model of concatenate_outputs alone (ConcatSpec).
ConcatMaxLines == 3 \* the dataset has 0..ConcatMaxLines lines
ConcatMaxN == 3     \* --n_splits ranges over 1..ConcatMaxN

\* Bound of the inputs of check_job_completed (TableSpec).
MaxTokens == 2     \* sacct prints 0..MaxTokens tokens

\* monitor_jobs: retries_left = {job[0]: 3 for job in jobs}
RetryBudget == 3

\* ResubmittedBudget handing a resubmitted job a full budget of its own.
Mutant_ResubmittedBudget == RetryBudget

\* monitor_jobs: retries_left[new_job_id] = 0
ResubmittedBudget == 0

VARIABLES
    dataset,        \* the input file: a sequence of lines (line i is the number i)
    n_splits,       \* args.n_splits
    split_exists,   \* the units i whose split_<i>.jsonl exists
    split_files,    \* contents of split_<i>.jsonl (<<>> when absent)
    out_exists,     \* the units i whose split_<i>_out.jsonl exists
    out_files,      \* contents of split_<i>_out.jsonl (<<>> when absent)
    final_exists,   \* whether args.output_file exists
    final_file,     \* contents of args.output_file
    pc,             \* position of the orchestrator process
    idx,            \* loop index of the split loop / the submit loop
    fpos,           \* lines of the input consumed by f.readline() in the second pass
    total_lines,    \* main's total_lines (-1 before split_input_file set it)
    reused,         \* split_input_file took the "splits already exist" branch
    jobs,           \* main's jobs list: <<job_id, unit>> tuples
    pending_jobs,   \* monitor_jobs' pending_jobs
    sweep,          \* the rest of the snapshot pending_jobs[:] being iterated
    retries_left,   \* monitor_jobs' retries_left dictionary
    sched,          \* the scheduler's job table: job id j is sched[j]
    outcome,        \* per unit, the run-level outcomes monitor_jobs gave it
    last_query,     \* the sacct result of the latest poll
    last_status,    \* what check_job_completed returned for it
    last_sbatch,    \* the latest sbatch call: "none", "good" or "bad"
    runs,           \* how many times the script was started
    err_file,       \* the unit whose output FileNotFoundError names (-1: none)
    query_failed    \* the latest sacct call raised or printed nothing

vars == <<dataset, n_splits, split_exists, split_files, out_exists, out_files,
          final_exists, final_file, pc, idx, fpos, total_lines, reused, jobs,
          pending_jobs, sweep, retries_left, sched, outcome,
          last_query, last_status, last_sbatch, runs, err_file, query_failed>>

files == <<dataset, n_splits, split_exists, split_files, out_exists, out_files,
           final_exists, final_file>>

Units == 0 .. (n_splits - 1)

Min(a, b) == IF a < b THEN a ELSE b

----------------------------------------------------------------------------
(* split_input_file *)

\* sum(1 for _ in open(input_file)): the number of lines of a file
CountLines(file) == Len(file)

\* ChunkSize rounding down instead of up.
Mutant_ChunkSize(total, n) == total \div n

\* ChunkSize taking one line more than the floor of total / n.
Mutant_ChunkSizeUp(total, n) == total \div n + 1

\* chunk_size = (total_lines + n_splits - 1) // n_splits
ChunkSize(total, n) == (total + n - 1) \div n

\* all(f.exists() for f in expected_splits)
AllSplitsExist == \A i \in Units : i \in split_exists

\* The lines the inner loop copies into one split: up to chunk_size readline()
\* calls starting at read position pos, stopping at end of file.
ReadChunk(file, pos, chunk_size) ==
    SubSeq(file, pos + 1, Min(pos + chunk_size, Len(file)))

\* SplitReuse taking the total from the splits it found instead of recounting
\* the input file.
Mutant_SplitReuse ==
    /\ pc = "split_check"
    /\ AllSplitsExist
    /\ total_lines' =
          LET size[k \in 0 .. n_splits] ==
                  IF k = 0 THEN 0 ELSE size[k - 1] + Len(split_files[k - 1])
          IN  size[n_splits]
    /\ reused' = TRUE
    /\ idx' = 0
    /\ pc' = "submit"
    /\ UNCHANGED <<files, fpos, jobs, pending_jobs, sweep, retries_left, sched,
                   outcome, last_query, last_status, last_sbatch, runs,
                   err_file, query_failed>>

\* Lines 20-25: every split exists, so nothing is written and the total is
\* recounted from the input file.
SplitReuse ==
    /\ pc = "split_check"
    /\ AllSplitsExist
    /\ total_lines' = CountLines(dataset)
    /\ reused' = TRUE
    /\ idx' = 0
    /\ pc' = "submit"
    /\ UNCHANGED <<files, fpos, jobs, pending_jobs, sweep, retries_left, sched,
                   outcome, last_query, last_status, last_sbatch,
                   runs, err_file, query_failed>>

\* Lines 27-38: first pass counts the lines, the input is reopened.
SplitBegin ==
    /\ pc = "split_check"
    /\ ~AllSplitsExist
    /\ total_lines' = CountLines(dataset)
    /\ fpos' = 0
    /\ idx' = 0
    /\ pc' = "split_open"
    /\ UNCHANGED <<files, reused, jobs, pending_jobs, sweep, retries_left,
                   sched, outcome, last_query, last_status,
                   last_sbatch, runs,
                   err_file, query_failed>>

\* Line 41: open(split_path, "w") creates or truncates split_<idx>.
SplitOpen ==
    /\ pc = "split_open"
    /\ split_exists' = split_exists \cup {idx}
    /\ split_files' = [split_files EXCEPT ![idx] = <<>>]
    /\ pc' = "split_write"
    /\ UNCHANGED <<dataset, n_splits, out_exists, out_files, final_exists,
                   final_file, idx, fpos, total_lines, reused, jobs,
                   pending_jobs, sweep, retries_left, sched, outcome,
                   last_query, last_status, last_sbatch, runs,
                   err_file, query_failed>>

\* Lines 42-46 and the close of fout: the chunk reaches split_<idx>; after the
\* last split the function returns (line 48).
SplitWrite ==
    /\ pc = "split_write"
    /\ LET chunk == ReadChunk(dataset, fpos, ChunkSize(total_lines, n_splits))
       IN  /\ split_files' = [split_files EXCEPT ![idx] = chunk]
           /\ fpos' = fpos + Len(chunk)
    /\ IF idx + 1 < n_splits
          THEN /\ idx' = idx + 1
               /\ pc' = "split_open"
          ELSE /\ idx' = 0
               /\ pc' = "submit"
    /\ UNCHANGED <<dataset, n_splits, split_exists, out_exists, out_files,
                   final_exists, final_file, total_lines, reused, jobs,
                   pending_jobs, sweep, retries_left, sched, outcome,
                   last_query, last_status, last_sbatch, runs,
                   err_file, query_failed>>

----------------------------------------------------------------------------
(* The scheduler's command-line tools as the script sees them *)

\* A whitespace-delimited token of sbatch's stdout: its text, and the value
\* int() gives it (-1 when int() raises ValueError).
Word(w) == [text |-> w, int |-> -1]
Num(k) == [text |-> "digits", int |-> k]
IsInt(tok) == tok.int >= 0

SubmittedLine(id) == <<Word("Submitted"), Word("batch"), Word("job"), Num(id)>>

\* What one sbatch call can hand back when the next free job id is id: exit
\* code and stdout (a sequence of lines, each a sequence of tokens).
SbatchResults(id) ==
    { [returncode |-> 0, stdout |-> <<SubmittedLine(id)>>],
      [returncode |-> 0, stdout |-> <<<<Num(id)>>>>],
      [returncode |-> 0, stdout |-> <<>>],
      [returncode |-> 0, stdout |-> <<<<Word("sbatch:"), Word("error")>>>>],
      [returncode |-> 1, stdout |-> <<>>],
      [returncode |-> 1, stdout |-> <<SubmittedLine(id)>>] }

\* The scheduler created a job exactly when it printed the job's id.
SbatchAccepted(res) ==
    \E k \in 1 .. Len(res.stdout) :
        /\ res.stdout[k] # <<>>
        /\ IsInt(res.stdout[k][Len(res.stdout[k])])

\* The value standing for a raised exception where a job id is expected.
Raised == -1

RECURSIVE Flatten(_)
\* result.stdout.strip().split(): the tokens of all the lines
Flatten(lines) ==
    IF lines = <<>> THEN <<>> ELSE Head(lines) \o Flatten(Tail(lines))

\* submit_job, lines 66-71: the job id, or Raised (RuntimeError on a non-zero
\* exit, IndexError on empty output, ValueError on a non-numeric last token).
submit_job(res) ==
    IF res.returncode # 0
       THEN Raised
       ELSE LET toks == Flatten(res.stdout)
            IN  IF toks = <<>> THEN Raised
                ELSE IF ~IsInt(toks[Len(toks)]) THEN Raised
                ELSE toks[Len(toks)].int

\* "Submitted batch job" in line
ContainsSubmitted(line) ==
    \E k \in 1 .. (Len(line) - 2) :
        /\ line[k] = Word("Submitted")
        /\ line[k + 1] = Word("batch")
        /\ line[k + 2] = Word("job")

RECURSIVE resubmit_scan(_)
\* resubmit_job, lines 96-99: the first line with "Submitted batch job" decides
\* (its last token through int()); without such a line RuntimeError is raised.
resubmit_scan(lines) ==
    IF lines = <<>> THEN Raised
    ELSE IF ContainsSubmitted(Head(lines))
         THEN LET line == Head(lines)
              IN  IF IsInt(line[Len(line)]) THEN line[Len(line)].int ELSE Raised
         ELSE resubmit_scan(Tail(lines))

\* resubmit_job, lines 94-99: result.returncode is never looked at.
resubmit_job(res) == resubmit_scan(res.stdout)

\* What one sacct call can hand back for a job in scheduler state st: the call
\* can raise; otherwise stdout is a sequence of tokens.  A job without a final
\* accounting record shows nothing, a live state, or a state the script does
\* not know.
SacctResults(st) ==
    {[raised |-> TRUE, stdout |-> <<>>]} \cup
    { [raised |-> FALSE, stdout |-> out] : out \in
        CASE st = "active" -> { <<>>, <<"RUNNING">>, <<"PENDING">>, <<"UNKNOWNX">> }
          [] st = "ok"     -> { <<"COMPLETED">>, <<"COMPLETING">> }
          [] st = "bad"    -> { <<"FAILED">>, <<"CANCELLED", "by", "1000">>,
                                <<"TIMEOUT">> } }

\* check_job_completed taking a job without an accounting record for failed.
Mutant_check_job_completed_empty(q) ==
    IF q.raised THEN "None"
    ELSE IF q.stdout = <<>> THEN "False"
    ELSE LET state == q.stdout[1]
         IN  IF state \in {"COMPLETED", "COMPLETING"} THEN "True"
             ELSE IF state \in {"FAILED", "CANCELLED", "TIMEOUT"} THEN "False"
             ELSE "None"

\* check_job_completed not knowing TIMEOUT.
Mutant_check_job_completed_timeout(q) ==
    IF q.raised THEN "None"
    ELSE IF q.stdout = <<>> THEN "None"
    ELSE LET state == q.stdout[1]
         IN  IF state \in {"COMPLETED", "COMPLETING"} THEN "True"
             ELSE IF state \in {"FAILED", "CANCELLED"} THEN "False"
             ELSE "None"

\* check_job_completed reporting a failed query as a failed job.
Mutant_check_job_completed_raise(q) ==
    IF q.raised THEN "False"
    ELSE IF q.stdout = <<>> THEN "False"
    ELSE LET state == q.stdout[1]
         IN  IF state \in {"COMPLETED", "COMPLETING"} THEN "True"
             ELSE IF state \in {"FAILED", "CANCELLED", "TIMEOUT"} THEN "False"
             ELSE "None"

\* check_job_completed, lines 73-92: "True", "False" or "None".
check_job_completed(q) ==
    IF q.raised THEN "None"
    ELSE IF q.stdout = <<>> THEN "None"
    ELSE LET state == q.stdout[1]
         IN  IF state \in {"COMPLETED", "COMPLETING"} THEN "True"
             ELSE IF state \in {"FAILED", "CANCELLED", "TIMEOUT"} THEN "False"
             ELSE "None"

----------------------------------------------------------------------------
(* main: the submit loop *)

\* Whether an sbatch call failed in the sense of the submission contract: a
\* non-zero exit code, or no job identifier on stdout.
SbatchClass(res) ==
    IF res.returncode # 0 \/ ~SbatchAccepted(res) THEN "bad" ELSE "good"

\* The scheduler's table after an sbatch call for unit u.
SchedAfter(res, u) ==
    IF SbatchAccepted(res)
       THEN Append(sched, [unit |-> u, state |-> "active"])
       ELSE sched

\* Lines 151-156: one iteration of the submit loop.  An exception of
\* submit_job leaves main.
Submit ==
    /\ pc = "submit"
    /\ idx < n_splits
    /\ \E res \in SbatchResults(Len(sched) + 1) :
          /\ sched' = SchedAfter(res, idx)
          /\ last_sbatch' = SbatchClass(res)
          /\ LET job_id == submit_job(res)
             IN  IF job_id = Raised
                    THEN /\ pc' = "aborted"
                         /\ UNCHANGED <<jobs, idx>>
                    ELSE /\ jobs' = Append(jobs, <<job_id, idx>>)
                         /\ idx' = idx + 1
                         /\ pc' = pc
    /\ UNCHANGED <<files, fpos, total_lines, reused, pending_jobs, sweep,
                   retries_left, outcome, last_query,
                   last_status, runs,
                   err_file, query_failed>>

----------------------------------------------------------------------------
(* monitor_jobs *)

\* retries_left.get(job_id, 0)
RetriesLeft(job_id) ==
    IF job_id \in DOMAIN retries_left THEN retries_left[job_id] ELSE 0

RECURSIVE Remove(_, _)
\* list.remove(x): drops the first element equal to x
Remove(list, x) ==
    IF list = <<>> THEN <<>>
    ELSE IF Head(list) = x THEN Tail(list)
    ELSE <<Head(list)>> \o Remove(Tail(list), x)

\* Lines 102-103, entered from main line 159 once every unit is submitted.
MonitorStart ==
    /\ pc = "submit"
    /\ idx = n_splits
    /\ pending_jobs' = jobs
    /\ retries_left' = [j \in {job[1] : job \in {jobs[k] : k \in 1 .. Len(jobs)}}
                           |-> RetryBudget]
    /\ pc' = "while"
    /\ UNCHANGED <<files, idx, fpos, total_lines, reused, jobs, sweep, sched,
                   outcome, last_query, last_status, last_sbatch,
                   runs, err_file, query_failed>>

\* Lines 105-106: the loop test; a sweep iterates the snapshot pending_jobs[:].
\* With nothing pending monitor_jobs returns and main goes on to line 162.
WhileTest ==
    /\ pc = "while"
    /\ IF pending_jobs # <<>>
          THEN /\ sweep' = pending_jobs
               /\ pc' = "for"
          ELSE /\ sweep' = <<>>
               /\ pc' = "concat"
    /\ UNCHANGED <<files, idx, fpos, total_lines, reused, jobs, pending_jobs,
                   retries_left, sched, outcome, last_query,
                   last_status, last_sbatch, runs,
                   err_file, query_failed>>

\* OnCompleted without pending_jobs.remove(job).
Mutant_OnCompleted(job) ==
    /\ outcome' = [outcome EXCEPT ![job[2]] = @ \cup {"Succeeded"}]
    /\ UNCHANGED <<pc, pending_jobs, retries_left, sched, last_sbatch>>

\* Lines 110-112: the job completed.
OnCompleted(job) ==
    /\ pending_jobs' = Remove(pending_jobs, job)
    /\ outcome' = [outcome EXCEPT ![job[2]] = @ \cup {"Succeeded"}]
    /\ UNCHANGED <<pc, retries_left, sched, last_sbatch>>

\* OnFailedRetry without pending_jobs.remove(job) after the resubmission.
Mutant_OnFailedRetry(job) ==
    \E res \in SbatchResults(Len(sched) + 1) :
        /\ sched' = SchedAfter(res, job[2])
        /\ last_sbatch' = SbatchClass(res)
        /\ LET new_job_id == resubmit_job(res)
           IN  IF new_job_id = Raised
                  THEN /\ pc' = "aborted"
                       /\ UNCHANGED <<pending_jobs, retries_left>>
                  ELSE /\ pending_jobs' =
                              Append(pending_jobs, <<new_job_id, job[2]>>)
                       /\ retries_left' =
                              [j \in DOMAIN retries_left \cup {new_job_id} |->
                                  IF j = new_job_id THEN ResubmittedBudget
                                                    ELSE retries_left[j]]
                       /\ pc' = pc
        /\ UNCHANGED outcome

\* Lines 116-122 with a retry left: resubmit, track the new job, drop the old.
OnFailedRetry(job) ==
    \E res \in SbatchResults(Len(sched) + 1) :
        /\ sched' = SchedAfter(res, job[2])
        /\ last_sbatch' = SbatchClass(res)
        /\ LET new_job_id == resubmit_job(res)
           IN  IF new_job_id = Raised
                  THEN /\ pc' = "aborted"
                       /\ UNCHANGED <<pending_jobs, retries_left>>
                  ELSE /\ pending_jobs' =
                              Remove(Append(pending_jobs, <<new_job_id, job[2]>>), job)
                       /\ retries_left' =
                              [j \in DOMAIN retries_left \cup {new_job_id} |->
                                  IF j = new_job_id THEN ResubmittedBudget
                                                    ELSE retries_left[j]]
                       /\ pc' = pc
        /\ UNCHANGED outcome

\* OnFailedExhausted giving up every pending job with the exhausted one.
Mutant_OnFailedExhausted(job) ==
    /\ pending_jobs' = <<>>
    /\ outcome' = [outcome EXCEPT ![job[2]] = @ \cup {"Exhausted"}]
    /\ UNCHANGED <<pc, retries_left, sched, last_sbatch>>

\* Lines 114-122 without a retry left: the job is dropped.
OnFailedExhausted(job) ==
    /\ pending_jobs' = Remove(pending_jobs, job)
    /\ outcome' = [outcome EXCEPT ![job[2]] = @ \cup {"Exhausted"}]
    /\ UNCHANGED <<pc, retries_left, sched, last_sbatch>>

\* MonitorStep taking every status other than True for a failure.
Mutant_MonitorStep(q) ==
    /\ pc = "for"
    /\ sweep # <<>>
    /\ LET job == Head(sweep)
           status == check_job_completed(q)
       IN  /\ last_status' = status
           /\ query_failed' = (q.raised \/ q.stdout = <<>>)
           /\ sweep' = Tail(sweep)
           /\ IF status = "True" THEN OnCompleted(job)
              ELSE IF RetriesLeft(job[1]) > 0
                      THEN OnFailedRetry(job)
                      ELSE OnFailedExhausted(job)
    /\ UNCHANGED <<files, idx, fpos, total_lines, reused, jobs, last_query,
                   runs, err_file>>

\* Lines 107-122: the loop body for the next job of the snapshot, given the
\* result q of the sacct call.
MonitorStep(q) ==
    /\ pc = "for"
    /\ sweep # <<>>
    /\ LET job == Head(sweep)
           status == check_job_completed(q)
       IN  /\ last_status' = status
           /\ query_failed' = (q.raised \/ q.stdout = <<>>)
           /\ sweep' = Tail(sweep)
           /\ IF status = "True" THEN OnCompleted(job)
              ELSE IF status = "False"
                   THEN IF RetriesLeft(job[1]) > 0
                           THEN OnFailedRetry(job)
                           ELSE OnFailedExhausted(job)
              ELSE UNCHANGED <<pc, pending_jobs, retries_left, sched, outcome,
                               last_sbatch>>
    /\ UNCHANGED <<files, idx, fpos, total_lines, reused, jobs, last_query,
                   runs, err_file>>

\* One poll: the sacct call made for the next job of the snapshot.
Poll ==
    /\ pc = "for"
    /\ sweep # <<>>
    /\ \E q \in SacctResults(sched[Head(sweep)[1]].state) : MonitorStep(q)

\* Lines 124-125: the sweep is over; sleep when something is still pending.
SweepEnd ==
    /\ pc = "for"
    /\ sweep = <<>>
    /\ pc' = "while"
    /\ UNCHANGED <<files, idx, fpos, total_lines, reused, jobs, pending_jobs,
                   sweep, retries_left, sched, outcome, 
                   last_query, last_status, last_sbatch, runs,
                   err_file, query_failed>>

----------------------------------------------------------------------------
(* concatenate_outputs and the end of main *)

\* FirstMissing without the out_file.exists() test.
Mutant_FirstMissing(k) == n_splits

RECURSIVE FirstMissing(_)
\* The first unit at or after k whose output file does not exist (n_splits
\* when there is none): where the loop of lines 129-134 raises.
FirstMissing(k) ==
    IF k >= n_splits THEN n_splits
    ELSE IF k \notin out_exists THEN k
    ELSE FirstMissing(k + 1)

RECURSIVE Mutant_CopyOutputs(_, _)
\* CopyOutputs putting each later unit's output in front.
Mutant_CopyOutputs(k, stop) ==
    IF k >= stop THEN <<>> ELSE Mutant_CopyOutputs(k + 1, stop) \o out_files[k]

RECURSIVE CopyOutputs(_, _)
\* shutil.copyfileobj for the units k .. stop-1, in the order of split_files.
CopyOutputs(k, stop) ==
    IF k >= stop THEN <<>> ELSE out_files[k] \o CopyOutputs(k + 1, stop)

\* Concatenate looking for a missing output before it opens the final file.
Mutant_Concatenate ==
    /\ pc = "concat"
    /\ LET stop == FirstMissing(0)
       IN  /\ final_exists' = (final_exists \/ stop = n_splits)
           /\ final_file' = IF stop = n_splits THEN CopyOutputs(0, stop)
                                               ELSE final_file
           /\ pc' = IF stop = n_splits THEN "done" ELSE "failed"
           /\ err_file' = IF stop = n_splits THEN -1 ELSE stop
    /\ UNCHANGED <<dataset, n_splits, split_exists, split_files, out_exists,
                   out_files, idx, fpos, total_lines, reused, jobs,
                   pending_jobs, sweep, retries_left, sched, outcome,
                   last_query, last_status, last_sbatch, runs, query_failed>>

\* Lines 127-134 and 163: the final file is opened for writing, the outputs
\* are copied until one is missing; main prints "All done!" when none was.
Concatenate ==
    /\ pc = "concat"
    /\ final_exists' = TRUE
    /\ LET stop == FirstMissing(0)
       IN  /\ final_file' = CopyOutputs(0, stop)
           /\ pc' = IF stop = n_splits THEN "done" ELSE "failed"
           /\ err_file' = IF stop = n_splits THEN -1 ELSE stop
    /\ UNCHANGED <<dataset, n_splits, split_exists, split_files, out_exists,
                   out_files, idx, fpos, total_lines, reused, jobs,
                   pending_jobs, sweep, retries_left, sched, outcome,
                   last_query, last_status, last_sbatch, runs, query_failed>>

----------------------------------------------------------------------------
(* The environment *)

\* What a worker leaves in its unit's output file: one output line per input
\* line ("full"), all but the last ("short"), or no file written ("none").
WorkerOutput(u, how) ==
    IF how = "full" THEN split_files[u]
    ELSE SubSeq(split_files[u], 1, Len(split_files[u]) - 1)

\* A job ends on the cluster: it completes or fails, having written its
\* output file or not.  The script sees a job only through the poll of it, so
\* the end of a job is taken no earlier than the moment its poll is next.
JobFinish ==
    /\ pc = "for"
    /\ sweep # <<>>
    /\ \E j \in {Head(sweep)[1]} :
          /\ sched[j].state = "active"
          /\ \E st \in {"ok", "bad"}, how \in {"full", "short", "none"} :
                /\ st = "bad" => how # "full"
                /\ sched' = [sched EXCEPT ![j].state = st]
                /\ IF how = "none"
                      THEN UNCHANGED <<out_exists, out_files>>
                      ELSE /\ out_exists' = out_exists \cup {sched[j].unit}
                           /\ out_files' = [out_files EXCEPT ![sched[j].unit] =
                                               WorkerOutput(sched[j].unit, how)]
    /\ UNCHANGED <<dataset, n_splits, split_exists, split_files, final_exists,
                   final_file, pc, idx, fpos, total_lines, reused, jobs,
                   pending_jobs, sweep, retries_left, outcome, 
                   last_query, last_status, last_sbatch, runs,
                   err_file, query_failed>>

\* The script is killed while split_input_file writes the splits, or right
\* after it returned.
Kill ==
    /\ pc \in {"split_open", "split_write", "submit"}
    /\ pc' = "killed"
    /\ UNCHANGED <<files, idx, fpos, total_lines, reused, jobs, pending_jobs,
                   sweep, retries_left, sched, outcome, last_query,
                   last_status, last_sbatch, runs,
                   err_file, query_failed>>

NoQuery == [raised |-> FALSE, stdout |-> <<>>]

\* The process state at the first line of main.
Started ==
    /\ pc = "split_check"
    /\ idx = 0
    /\ fpos = 0
    /\ total_lines = -1
    /\ reused = FALSE
    /\ jobs = <<>>
    /\ pending_jobs = <<>>
    /\ sweep = <<>>
    /\ retries_left = [j \in {} |-> 0]
    /\ sched = <<>>
    /\ outcome = [u \in Units |-> {}]
    /\ last_query = NoQuery
    /\ last_status = "none"
    /\ last_sbatch = "none"
    /\ err_file = -1
    /\ query_failed = FALSE

\* The script is started again on the same arguments: the files are as the
\* earlier run left them, the process state is new.
Restart ==
    /\ pc \in {"killed", "done", "failed", "aborted"}
    /\ runs < MaxRuns
    /\ UNCHANGED files
    /\ runs' = runs + 1
    /\ pc' = "split_check"
    /\ idx' = 0
    /\ fpos' = 0
    /\ total_lines' = -1
    /\ reused' = FALSE
    /\ jobs' = <<>>
    /\ pending_jobs' = <<>>
    /\ sweep' = <<>>
    /\ retries_left' = [j \in {} |-> 0]
    /\ sched' = <<>>
    /\ outcome' = [u \in Units |-> {}]
    /\ last_query' = NoQuery
    /\ last_status' = "none"
    /\ last_sbatch' = "none"
    /\ err_file' = -1
    /\ query_failed' = FALSE

----------------------------------------------------------------------------
(* Specifications *)

\* Split i of a finished split_input_file pass over file (lines 35-46): the
\* read position before split i is i chunks in, or the end of the file.
SplitOf(file, n, i) ==
    ReadChunk(file, Min(i * ChunkSize(Len(file), n), Len(file)),
              ChunkSize(Len(file), n))

\* No split, output or final file exists yet.
FreshFiles ==
    /\ split_exists = {}
    /\ split_files = [u \in Units |-> <<>>]
    /\ out_exists = {}
    /\ out_files = [u \in Units |-> <<>>]
    /\ final_exists = FALSE
    /\ final_file = <<>>

\* The splits are there from an earlier run that stopped after splitting.
ResumedFiles ==
    /\ split_exists = Units
    /\ split_files = [u \in Units |-> SplitOf(dataset, n_splits, u)]
    /\ out_exists = {}
    /\ out_files = [u \in Units |-> <<>>]
    /\ final_exists = FALSE
    /\ final_file = <<>>

\* A whole run of main, on a fresh directory or on the splits of an earlier run.
Init ==
    /\ dataset \in {[i \in 1 .. t |-> i] : t \in 0 .. MaxLines}
    /\ n_splits \in 1 .. MaxSplits
    /\ FreshFiles \/ ResumedFiles
    /\ Started
    /\ runs = 1

Next ==
    \/ SplitReuse
    \/ SplitBegin
    \/ SplitOpen
    \/ SplitWrite
    \/ Submit
    \/ MonitorStart
    \/ WhileTest
    \/ Poll
    \/ SweepEnd
    \/ Concatenate
    \/ JobFinish

Spec == Init /\ [][Next]_vars

\* split_input_file alone, killed and rerun on the same directory.
SplitInit ==
    /\ dataset \in {[i \in 1 .. t |-> i] : t \in 0 .. SplitMaxLines}
    /\ n_splits \in 1 .. SplitMaxN
    /\ FreshFiles
    /\ Started
    /\ runs = 1

SplitNext ==
    \/ SplitReuse
    \/ SplitBegin
    \/ SplitOpen
    \/ SplitWrite
    \/ Kill
    \/ Restart

SplitSpec == SplitInit /\ [][SplitNext]_vars

\* A whole run under the scheduling the monitor loop relies on: the script
\* itself keeps running (it is one sequential process), every job polled
\* again and again ends at some point, and sacct answers for a job that is
\* polled again and again.
PollAnswered ==
    /\ pc = "for"
    /\ sweep # <<>>
    /\ \E q \in SacctResults(sched[Head(sweep)[1]].state) :
          ~q.raised /\ MonitorStep(q)

Fairness ==
    /\ WF_vars(WhileTest \/ Poll \/ SweepEnd)
    /\ SF_vars(JobFinish)
    /\ SF_vars(PollAnswered)

\* The monitor loop reads neither the dataset nor the output files: the empty
\* dataset stands for all.
FairInit == Init /\ dataset = <<>>

FairSpec == FairInit /\ [][Next]_vars /\ Fairness

\* check_job_completed alone, applied to what sacct can print.
Tokens == {"RUNNING", "PENDING", "COMPLETED", "COMPLETING", "FAILED",
           "CANCELLED", "TIMEOUT", "UNKNOWNX"}

RECURSIVE TokenSeqs(_)
\* The sequences of at most k tokens.
TokenSeqs(k) ==
    IF k = 0 THEN {<<>>}
    ELSE LET shorter == TokenSeqs(k - 1)
         IN  shorter \cup {Append(out, t) : out \in shorter, t \in Tokens}

TableInit ==
    /\ dataset = <<>>
    /\ n_splits = 1
    /\ FreshFiles
    /\ pc = "table"
    /\ idx = 0
    /\ fpos = 0
    /\ total_lines = -1
    /\ reused = FALSE
    /\ jobs = <<>>
    /\ pending_jobs = <<>>
    /\ sweep = <<>>
    /\ retries_left = [j \in {} |-> 0]
    /\ sched = <<>>
    /\ outcome = [u \in Units |-> {}]
    /\ last_query \in [raised : BOOLEAN, stdout : TokenSeqs(MaxTokens)]
    /\ last_status = "none"
    /\ last_sbatch = "none"
    /\ runs = 1
    /\ err_file = -1
    /\ query_failed = FALSE

\* Line 108: status = check_job_completed(job_id) on the sacct result.
Classify ==
    /\ pc = "table"
    /\ last_status' = check_job_completed(last_query)
    /\ pc' = "classified"
    /\ UNCHANGED <<files, idx, fpos, total_lines, reused, jobs, pending_jobs,
                   sweep, retries_left, sched, outcome, last_query,
                   last_sbatch, runs,
                   err_file, query_failed>>

TableNext == Classify

TableSpec == TableInit /\ [][TableNext]_vars

\* What an earlier run left at the final path: a line of another run.
StaleFinal == <<0>>

\* concatenate_outputs alone, called at line 162 after every unit's one job
\* completed: each job wrote its output in full, short of a line, or not at
\* all; on a second run the final path still holds the earlier final file.
ConcatInit ==
    /\ dataset \in {[i \in 1 .. t |-> i] : t \in 0 .. ConcatMaxLines}
    /\ n_splits \in 1 .. ConcatMaxN
    /\ split_exists = Units
    /\ split_files = [u \in Units |-> SplitOf(dataset, n_splits, u)]
    /\ out_exists \in SUBSET Units
    /\ out_files \in [Units -> {SubSeq(dataset, a, b) :
                                   a \in 1 .. Len(dataset) + 1,
                                   b \in 0 .. Len(dataset)}]
    /\ \A u \in Units :
          IF u \in out_exists
             THEN out_files[u] \in {WorkerOutput(u, "full"), WorkerOutput(u, "short")}
             ELSE out_files[u] = <<>>
    /\ runs \in {1, 2}
    /\ final_exists = (runs = 2)
    /\ final_file = IF runs = 2 THEN StaleFinal ELSE <<>>
    /\ pc = "concat"
    /\ idx = n_splits
    /\ fpos = Len(dataset)
    /\ total_lines = Len(dataset)
    /\ reused = FALSE
    /\ jobs = [k \in 1 .. n_splits |-> <<k, k - 1>>]
    /\ pending_jobs = <<>>
    /\ sweep = <<>>
    /\ retries_left = [j \in 1 .. n_splits |-> RetryBudget]
    /\ sched = [k \in 1 .. n_splits |-> [unit |-> k - 1, state |-> "ok"]]
    /\ outcome = [u \in Units |-> {"Succeeded"}]
    /\ last_query = NoQuery
    /\ last_status = "True"
    /\ last_sbatch = "good"
    /\ err_file = -1
    /\ query_failed = FALSE

ConcatNext == Concatenate

ConcatSpec == ConcatInit /\ [][ConcatNext]_vars

----------------------------------------------------------------------------
(* Properties *)

\* The jobs the scheduler created for unit u in this run.
JobsOf(u) == {j \in 1 .. Len(sched) : sched[j].unit = u}

Exhausted(u) == "Exhausted" \in outcome[u]
Succeeded(u) == "Succeeded" \in outcome[u]

\* C1: in a run where some unit ends Exhausted, main does not write the final
\* file and does not report success, whatever output files are on disk.
C1_NoArtifactAfterExhaustion ==
    (\E u \in Units : Exhausted(u)) => (pc # "done" /\ ~final_exists)

\* C2: a unit that ends Exhausted was resubmitted exactly RetryBudget times,
\* so RetryBudget + 1 jobs were submitted for it.
C2_ExactlyBudgetRetries ==
    \A u \in Units : Exhausted(u) => Cardinality(JobsOf(u)) = RetryBudget + 1

\* C3: success is reported only when the final file has as many lines as the
\* splitter counted; a mismatch ends the run in an error.
C3_LineCountValidated ==
    pc = "done" => Len(final_file) = total_lines

\* monitor_jobs has returned: main is at line 162 or beyond.
MonitorReturned == pc \in {"concat", "done", "failed"}

\* C4 as claimed: once monitor_jobs runs, it eventually returns.
C4_MonitorReturns == (pc = "while") ~> MonitorReturned

\* C4, amended: once monitor_jobs runs, it eventually returns or is left by
\* the exception of a failed resubmission; and it returns only when nothing
\* is pending and no job of the run is still active on the cluster.
C4_MonitorEnds ==
    /\ (pc = "while") ~> (MonitorReturned \/ pc = "aborted")
    /\ [](MonitorReturned =>
            /\ pending_jobs = <<>>
            /\ \A j \in 1 .. Len(sched) : sched[j].state # "active")

\* A unit was retried, its retry ended, and monitor_jobs returned.
C4_Witness ==
    /\ pc = "concat"
    /\ \E u \in Units : Cardinality(JobsOf(u)) = 2
    /\ Len(sched) > n_splits

\* The first token of sacct's output ("" when it printed nothing).
StateToken(q) == IF q.stdout = <<>> THEN "" ELSE q.stdout[1]

\* The classification table of the status query.
StatusTable ==
    [tok \in Tokens \cup {""} |->
        CASE tok = "COMPLETED"  -> "True"
          [] tok = "COMPLETING" -> "True"
          [] tok = "FAILED"     -> "False"
          [] tok = "CANCELLED"  -> "False"
          [] tok = "TIMEOUT"    -> "False"
          [] tok = "RUNNING"    -> "None"
          [] tok = "PENDING"    -> "None"
          [] tok = "UNKNOWNX"   -> "None"
          [] tok = ""           -> "None"]

\* C5: for every state token, and for empty output, the status query returns
\* what the table says: Completed for COMPLETED and COMPLETING, Failed for
\* FAILED, CANCELLED and TIMEOUT, and non-terminal (never Failed) otherwise.
C5_StatusTable ==
    (pc = "classified" /\ ~last_query.raised) =>
        last_status = StatusTable[StateToken(last_query)]

\* Empty output was classified, and so was a TIMEOUT followed by more output.
C5_Witness ==
    /\ pc = "classified"
    /\ ~last_query.raised
    /\ \/ last_query.stdout = <<>> /\ last_status = "None"
       \/ last_query.stdout = <<"TIMEOUT", "COMPLETED">> /\ last_status = "False"

RECURSIVE JoinSplits(_)
\* split_0 .. split_{k-1} read one after the other.
JoinSplits(k) ==
    IF k = 0 THEN <<>> ELSE JoinSplits(k - 1) \o split_files[k - 1]

RECURSIVE SumSplitSizes(_)
\* The number of lines in split_0 .. split_{k-1}.
SumSplitSizes(k) ==
    IF k = 0 THEN 0 ELSE SumSplitSizes(k - 1) + Len(split_files[k - 1])

\* split_input_file has returned from its writing branch.
FreshSplitDone == pc = "submit" /\ ~reused

\* C6: a fresh split leaves n_splits partitions that, read in order, are the
\* dataset's lines exactly once each, and whose sizes add up to the returned
\* total line count.
C6_PartitionComplete ==
    FreshSplitDone =>
        /\ \A i \in Units : i \in split_exists
        /\ JoinSplits(n_splits) = dataset
        /\ SumSplitSizes(n_splits) = total_lines

\* A fresh split of 4 lines into 3 partitions, and one that overwrote the
\* partial splits of a killed run.
C6_Witness ==
    /\ FreshSplitDone
    /\ \/ n_splits = 3 /\ Len(dataset) = 4
       \/ runs > 1 /\ n_splits > 1 /\ Len(dataset) > 1

\* C7: when every partition file exists, the splitter writes none of them
\* and returns the line count of the source; nothing later in that run
\* writes them either.
C7_ReuseLeavesSplits ==
    /\ [][(pc = "split_check" /\ \A i \in Units : i \in split_exists) =>
            /\ total_lines' = Len(dataset)
            /\ UNCHANGED <<split_exists, split_files>>]_vars
    /\ [][(reused' /\ runs' = runs) =>
            UNCHANGED <<split_exists, split_files>>]_vars

\* A second run reused the splits of a run that was killed while it wrote the
\* last one, and still returned the line count of the source.
C7_Witness ==
    /\ reused
    /\ runs > 1
    /\ pc = "submit"
    /\ total_lines = Len(dataset)
    /\ SumSplitSizes(n_splits) < total_lines

\* Where unit u's output starts in the final file.
OutputOffset(u) ==
    LET before[k \in 0 .. u] ==
            IF k = 0 THEN 0 ELSE before[k - 1] + Len(out_files[k - 1])
    IN  before[u]

\* C8: when main reports success, the final file holds every unit's output at
\* the place its partition index gives it, and nothing else, whatever the
\* order in which the jobs completed or were retried.
C8_IndexOrder ==
    pc = "done" =>
        /\ Len(final_file) = OutputOffset(n_splits)
        /\ \A u \in Units :
               SubSeq(final_file, OutputOffset(u) + 1,
                      OutputOffset(u) + Len(out_files[u])) = out_files[u]

\* Success with two non-empty outputs where unit 0 needed a retry and unit 1
\* did not.
C8_Witness ==
    /\ pc = "done"
    /\ n_splits = 2
    /\ out_files[0] # <<>>
    /\ out_files[1] # <<>>
    /\ Cardinality(JobsOf(0)) = 2
    /\ Cardinality(JobsOf(1)) = 1

\* The units that have a job in a list of <<job_id, unit>> tuples.
UnitsIn(list) == {list[k][2] : k \in 1 .. Len(list)}

\* C9: a unit gets at most one outcome, and exactly one by the time
\* monitor_jobs returns: Succeeded when one of its jobs completed, Exhausted
\* when one failed with no retry left.  A unit with an outcome has no job
\* left to poll, keeps its outcome, and gets no further job.
C9_OneOutcome ==
    /\ [](\A u \in Units :
            /\ Cardinality(outcome[u]) <= 1
            /\ MonitorReturned => Cardinality(outcome[u]) = 1
            /\ Succeeded(u) => \E j \in JobsOf(u) : sched[j].state = "ok"
            /\ Exhausted(u) => \E j \in JobsOf(u) :
                                  sched[j].state = "bad" /\ RetriesLeft(j) = 0
            /\ outcome[u] # {} => u \notin UnitsIn(pending_jobs) \cup UnitsIn(sweep))
    /\ [][\A u \in Units :
            outcome[u] # {} =>
                /\ outcome'[u] = outcome[u]
                /\ Cardinality(JobsOf(u))' = Cardinality(JobsOf(u))]_vars

\* One unit Succeeded and the other Exhausted, and the monitor went on
\* polling after the first of them was settled.
C9_Witness ==
    /\ MonitorReturned
    /\ \E u, v \in Units : Succeeded(u) /\ Exhausted(v)

\* C10: an sbatch call that exits non-zero or prints no job identifier, for a
\* first submission or for a retry, ends the run in an exception: nothing is
\* submitted or polled after it, and main reaches neither the concatenation
\* nor the success message.
C10_FailedSubmissionAborts ==
    last_sbatch = "bad" => pc = "aborted"

\* concatenate_outputs has run: main is past line 162 or left it there.
Aggregated == pc \in {"done", "failed"}

\* C11: when some unit's output file is missing at aggregation,
\* concatenate_outputs raises an error naming a missing output file (the first
\* one in index order) and main does not report success.
C11_MissingOutputFatal ==
    (Aggregated /\ \E u \in Units : u \notin out_exists) =>
        /\ pc = "failed"
        /\ err_file \in Units
        /\ err_file \notin out_exists
        /\ \A u \in Units : u < err_file => u \in out_exists

\* Both units Succeeded, unit 0 wrote its output and unit 1 did not: the
\* error names unit 1's output file.
C11_Witness ==
    /\ pc = "failed"
    /\ n_splits = 2
    /\ Succeeded(0) /\ Succeeded(1)
    /\ out_exists = {0}
    /\ err_file = 1

\* The jobs of unit u that a list of <<job_id, unit>> tuples holds.
JobsIn(list, u) == {list[k][1] : k \in {i \in 1 .. Len(list) : list[i][2] = u}}

\* C12: in every state of the monitor loop a unit has at most one job in the
\* pending set and in the snapshot being swept, and that job is the unit's
\* latest; a retry puts the new job in and takes the failed one out in one
\* step, so two jobs of one unit are never polled together.
C12_OneActiveJob ==
    \A u \in Units :
        /\ Cardinality(JobsIn(pending_jobs, u) \cup JobsIn(sweep, u)) <= 1
        /\ Cardinality({k \in 1 .. Len(pending_jobs) : pending_jobs[k][2] = u}) <= 1
        /\ pc \in {"while", "for"} =>
              \A j \in JobsIn(pending_jobs, u) : \A i \in JobsOf(u) : i <= j

\* A retry happened: the replacement job is pending and the failed one is not.
C12_Witness ==
    /\ pc = "for"
    /\ last_status = "False"
    /\ \E u \in Units :
          /\ Cardinality(JobsOf(u)) = 2
          /\ Cardinality(JobsIn(pending_jobs, u)) = 1
          /\ \A j \in JobsIn(pending_jobs, u) : sched[j].state = "active"

\* A step of the for loop that polls the next job of the snapshot.
PollStep == pc = "for" /\ sweep # <<>> /\ sweep' = Tail(sweep)

\* What a poll can change of the monitor's and the scheduler's bookkeeping.
MonitorBook == <<pc, pending_jobs, retries_left, sched, outcome>>

\* C13: a poll that classifies the job as running or unknown (status None)
\* changes nothing: the job stays pending, nothing is resubmitted and no retry
\* budget changes; a job the scheduler has not finished (just submitted
\* included) is always classified so; and a poll changes a budget or submits
\* a job only when it classifies the job as failed.
C13_UnknownPollNoChange ==
    [][PollStep =>
          /\ last_status' = "None" => UNCHANGED MonitorBook
          /\ sched[Head(sweep)[1]].state = "active" => last_status' = "None"
          /\ (retries_left' # retries_left \/ sched' # sched) =>
                last_status' = "False"]_vars

\* The scheduler answered the latest poll with a live or unknown state while
\* no job has finished: every unit still has its first job pending.
C13_Witness ==
    /\ pc = "for"
    /\ last_status = "None"
    /\ ~query_failed
    /\ n_splits = 2
    /\ sweep = <<>>
    /\ pending_jobs = jobs
    /\ \A j \in 1 .. Len(sched) : sched[j].state = "active"
    /\ \A job_id \in DOMAIN retries_left : retries_left[job_id] = RetryBudget

\* C14: no unit is resubmitted more often than its retry budget, a run of N
\* units submits at most N * (R + 1) jobs, and a job that a retry made has no
\* retry of its own.
C14_RetriesBounded ==
    /\ \A u \in Units : Cardinality(JobsOf(u)) - 1 <= RetryBudget
    /\ Len(sched) <= n_splits * (RetryBudget + 1)
    /\ \A job_id \in DOMAIN retries_left : retries_left[job_id] <= RetryBudget

\* A unit was resubmitted, its retry failed too, and monitoring ended.
C14_Witness ==
    /\ MonitorReturned
    /\ \E u \in Units : Exhausted(u) /\ Cardinality(JobsOf(u)) = 2
    /\ Len(sched) = n_splits + 1

\* C16: a status query that raises or prints nothing is classified unknown
\* (None), never failed: the job stays pending, nothing is resubmitted, no
\* retry budget changes, and the next sweep polls every pending job again.
C16_QueryFailureUnknown ==
    [][/\ (PollStep /\ query_failed') =>
             /\ last_status' = "None"
             /\ UNCHANGED MonitorBook
             /\ \E k \in 1 .. Len(pending_jobs') : pending_jobs'[k] = Head(sweep)
       /\ (pc = "while" /\ pending_jobs # <<>>) => sweep' = pending_jobs]_vars

\* The query for a job that has already ended on the cluster failed: the job
\* is still pending, with its budget.
C16_Witness ==
    /\ pc = "for"
    /\ query_failed
    /\ last_status = "None"
    /\ \E k \in 1 .. Len(pending_jobs) :
          /\ sched[pending_jobs[k][1]].state \in {"ok", "bad"}
          /\ pending_jobs[k] \notin {sweep[i] : i \in 1 .. Len(sweep)}
          /\ RetriesLeft(pending_jobs[k][1]) = RetryBudget

\* C15: the step that drops a unit as Exhausted leaves the loop running and
\* every other unit's pending job and budget as they were; with a unit
\* Exhausted, each sweep still polls every pending job, a failed job with a
\* retry left is still resubmitted (or the resubmission raises), every unit
\* without an outcome still has a pending job, and monitor_jobs returns only
\* when every unit is Succeeded or Exhausted.
C15_ExhaustedLeavesOthers ==
    [][/\ \A u \in Units :
             (outcome[u] = {} /\ "Exhausted" \in outcome'[u]) =>
                 /\ PollStep
                 /\ pc' = "for"
                 /\ retries_left' = retries_left
                 /\ sched' = sched
                 /\ \A v \in Units \ {u} :
                       /\ JobsIn(pending_jobs', v) = JobsIn(pending_jobs, v)
                       /\ outcome'[v] = outcome[v]
       /\ (\E u \in Units : Exhausted(u)) =>
             /\ (pc = "while" /\ pending_jobs # <<>>) =>
                   pc' = "for" /\ sweep' = pending_jobs
             /\ (PollStep /\ last_status' = "False"
                          /\ RetriesLeft(Head(sweep)[1]) > 0) =>
                   \/ pc' = "aborted"
                   \/ \E k \in 1 .. Len(pending_jobs') :
                         /\ pending_jobs'[k][2] = Head(sweep)[2]
                         /\ pending_jobs'[k][1] # Head(sweep)[1]
             /\ pc' \in {"while", "for"} =>
                   \A v \in Units : outcome'[v] = {} => JobsIn(pending_jobs', v) # {}
             /\ pc' = "concat" => \A v \in Units : outcome'[v] # {}]_vars

\* Unit 0 is Exhausted and the other unit's failed job has just been
\* resubmitted: its replacement is the one pending job.
C15_Witness ==
    /\ pc = "for"
    /\ n_splits = 2
    /\ Exhausted(0)
    /\ outcome[1] = {}
    /\ last_status = "False"
    /\ Len(sched) = 4
    /\ pending_jobs = <<<<4, 1>>>>
    /\ sched[4].state = "active"

\* ceil(total / n) by its definition: the least c with c * n >= total.
CeilDiv(total, n) ==
    CHOOSE c \in 0 .. total : c * n >= total /\ \A d \in 0 .. total : d * n >= total => c <= d

\* The number of lines of split i.
SplitSize(i) == Len(split_files[i])

\* C17 as stated: after a fresh split every partition but the last has
\* exactly ceil(T / n) lines and the last one holds the remainder.
C17_LastAbsorbsRemainder ==
    FreshSplitDone =>
        LET c == CeilDiv(Len(dataset), n_splits)
        IN  /\ \A i \in Units : i < n_splits - 1 => SplitSize(i) = c
            /\ SplitSize(n_splits - 1) = Len(dataset) - (n_splits - 1) * c
            /\ SplitSize(n_splits - 1) <= c

\* C17, amended: after a fresh split of T lines, with c = ceil(T / n),
\* partition i holds the lines left after i full partitions, at most c of
\* them: max(0, min(c, T - i * c)).  The partitions are full ones, then at
\* most one short one, then empty ones; none is larger than c.
C17_PartitionSizes ==
    FreshSplitDone =>
        LET c == CeilDiv(Len(dataset), n_splits)
        IN  /\ total_lines = Len(dataset)
            /\ \A i \in Units :
                  LET left == Len(dataset) - i * c
                  IN  SplitSize(i) = IF left <= 0 THEN 0 ELSE Min(c, left)

\* A fresh split of one line into three partitions: the second partition,
\* not the last one, is empty.
C17_Witness ==
    /\ FreshSplitDone
    /\ n_splits = 3
    /\ Len(dataset) = 1
    /\ SplitSize(0) = 1
    /\ SplitSize(1) = 0
    /\ SplitSize(2) = 0

\* C18: whenever split_input_file has returned, after any number of killed
\* and restarted runs, the partitions hold every line of the dataset exactly
\* once and their sizes add up to the returned total.
C18_RestartPartitionComplete ==
    pc = "submit" =>
        /\ JoinSplits(n_splits) = dataset
        /\ SumSplitSizes(n_splits) = total_lines

\* C19: when concatenate_outputs fails at the first missing output, of unit
\* k, the final file exists and holds exactly the outputs of units 0 .. k-1
\* in index order; nothing an earlier run left at the final path remains, and
\* no output of a unit after k is in it.
C19_PartialFinalOnFailure ==
    pc = "failed" =>
        /\ final_exists
        /\ err_file \in Units
        /\ err_file = FirstMissing(0)
        /\ Len(final_file) = OutputOffset(err_file)
        /\ \A u \in Units : u < err_file =>
               SubSeq(final_file, OutputOffset(u) + 1,
                      OutputOffset(u) + Len(out_files[u])) = out_files[u]
        /\ \A i \in 1 .. Len(final_file) : final_file[i] \notin {StaleFinal[1]}

\* A second run failed at unit 1 of three: the final file holds unit 0's
\* output only, though unit 2's output exists.
C19_Witness ==
    /\ pc = "failed"
    /\ runs = 2
    /\ n_splits = 3
    /\ err_file = 1
    /\ out_exists = {0, 2}
    /\ out_files[0] # <<>>
    /\ out_files[2] # <<>>
    /\ final_file = out_files[0]

====
